---- MODULE Spec2Model ----
(***************************************************************************)
(* container-store (src/src/main.rs): one invocation creates the overlay   *)
(* directories, unmounts a prior view, lists /nix/store and the upper      *)
(* (masking) directory, resolves the closure with nix-store -qR, removes   *)
(* and creates marker files in the upper directory and mounts the overlay. *)
(* Store path names are the integers 1..NumNames.                          *)
(***************************************************************************)
EXTENDS Integers, FiniteSets, Sequences, TLC

\* Number of distinct store path names that exist in the modelled world.
NumNames == 3

Names == 1..NumNames

\* Permission bits of the upper directory: 0o111 as set by main, and the
\* mode a freshly created directory has (0o755).
ModeExecOnly == 73
ModeDefault == 493

AllDirs == {"merged", "upper", "work"}

(***************************************************************************)
(* The reconciliation sets, as main computes them.                         *)
(***************************************************************************)

\* Variant: markers of needed paths are never looked for.
UnmaskNever(masked, whitelist) == {}

\* current_removed.intersection(&needed_paths)
Unmask(masked, whitelist) == masked \cap whitelist

\* Variant: markers of paths that left the store are never looked for.
StaleNever(masked, st) == {}

\* current_removed.difference(&current_store)
Stale(masked, st) == masked \ st

\* current_store.difference(&current_removed)
CurrentAvailable(st, masked) == st \ masked

\* Variant: the needed paths are not taken out of the paths to mask.
NewlyMaskIgnoringNeeded(st, masked, whitelist) == CurrentAvailable(st, masked)

\* Variant: paths that already have a marker are masked again.
NewlyMaskIgnoringMasked(st, masked, whitelist) == st \ whitelist

\* current_available.difference(&needed_paths_ref)
NewlyMask(st, masked, whitelist) == CurrentAvailable(st, masked) \ whitelist

(***************************************************************************)
(* nix-store -qR: its exit status, whether stdout is UTF-8, and its lines. *)
(* A line is <<"store", n>> for "/nix/store/" followed by the name n,      *)
(* <<"other", n>> for eleven other bytes followed by n, or <<"short", 0>>  *)
(* for a line shorter than the prefix.                                     *)
(***************************************************************************)
StoreLines == {<<"store", n>> : n \in Names}

OtherLine == <<"other", 1>>

ShortLine == <<"short", 0>>

\* The answers considered: any set of store paths, or one defective line, or
\* a failed command, or bytes that are not UTF-8.
NixOutputs ==
    {[ok |-> TRUE, utf8 |-> TRUE, lines |-> L] :
        L \in SUBSET StoreLines \cup {{OtherLine}, {ShortLine}}}
    \cup {[ok |-> FALSE, utf8 |-> TRUE, lines |-> {}],
          [ok |-> TRUE, utf8 |-> FALSE, lines |-> {}]}

\* l[len..] with len = "/nix/store/".len(): the bytes after the first eleven,
\* whatever those eleven are; slicing past the end of the line panics.
StripPrefix(l) == l[2]

\* get_needed_paths: the outcome of the closure resolution thread body.
GetNeededPaths(out) ==
    IF ~out.ok THEN [tag |-> "err", val |-> {}, msg |-> "Failed to query nix store"]
    ELSE IF ~out.utf8 THEN [tag |-> "err", val |-> {}, msg |-> "Utf8Error"]
    ELSE IF \E l \in out.lines : l[1] = "short"
         THEN [tag |-> "panic", val |-> {}, msg |-> "panic"]
    ELSE [tag |-> "ok", val |-> {StripPrefix(l) : l \in out.lines}, msg |-> ""]

\* get_paths: the entry names of a directory.
GetPaths(entries) == [tag |-> "ok", val |-> entries, msg |-> ""]

\* An io::Error from the operating system, for the call named.
IoErr(what) == [tag |-> "err", val |-> {}, msg |-> what]

NotStarted == [tag |-> "none", val |-> {}, msg |-> ""]

Running == [tag |-> "running", val |-> {}, msg |-> ""]

\* Variant: a prior mount is never noticed.
IsMountedNever(viewMounted, otherEntry) == FALSE

\* is_mounted: does the mount table contain the bytes of the merged path.
IsMounted(viewMounted, otherEntry) == viewMounted \/ otherEntry

\* Variant: lowerdir=/nix/store:<upper>, the store on top.
OverlayStoreFirst(first, second) ==
    [n \in first \cup second |-> IF n \in second THEN "store" ELSE "upper"]

\* The overlay mount with lowerdir=<upper>:<store>: each name resolves to the
\* first layer that has it.
Overlay(first, second) ==
    [n \in first \cup second |-> IF n \in first THEN "upper" ELSE "store"]

NoView == [n \in {} |-> "store"]

\* thread::JoinHandle after join() has consumed it.
Joined == [tag |-> "joined", val |-> {}, msg |-> ""]

\* A thread when main returns: the process exits and takes it along; what a
\* finished thread had returned is dropped, unread.
Gone == [tag |-> "gone", val |-> {}, msg |-> ""]

Ended(t) == IF t.tag \in {"running", "ok"} THEN Gone ELSE t

(***************************************************************************)
(* State.                                                                  *)
(***************************************************************************)
VARIABLES
    store,           \* entry names of /nix/store
    nixOut,          \* what nix-store -qR answers for opt.files
    otherMount,      \* the mount table has another entry containing the merged path
    rootUtf8,        \* opt.root/opt.name is valid UTF-8
    upper,           \* entry names of <root>/upper (the marker files)
    dirs,            \* which of merged, upper, work exist
    upperMode,       \* permission bits of <root>/upper
    mounted,         \* an overlay is mounted at <root>/merged
    pc,              \* position of main
    result,          \* what main returned: "none", "ok" or the error
    prev,            \* how the preceding run ended, under the same store and closure
    tNeeded,         \* the thread running get_needed_paths
    tRemoved,        \* the thread running get_paths(upper)
    current_store,
    needed_paths,
    current_removed,
    todo,            \* names the running loop has not yet visited
    new_ctr,
    outdated_ctr,
    rm_ctr,
    stdout,          \* the counts printed, if any
    detected,        \* what is_mounted returned in this run
    umounts,         \* umount commands issued in this run
    mounts,          \* mount -t overlay commands issued in this run
    rmTried,         \* per name, remove_file calls of this run
    mkTried          \* per name, mknod calls of this run

envVars == <<store, nixOut, otherMount, rootUtf8>>

fsVars == <<upper, dirs, upperMode, mounted>>

collected == <<current_store, needed_paths, current_removed>>

threads == <<tNeeded, tRemoved>>

counters == <<new_ctr, outdated_ctr, rm_ctr>>

ghost == <<detected, umounts, mounts, rmTried, mkTried>>

vars == <<envVars, fsVars, pc, result, prev, threads, collected, todo,
          counters, stdout, ghost>>

NoneTried == [n \in Names |-> 0]

\* The values every run starts from.
FreshRun ==
    /\ tNeeded' = NotStarted
    /\ tRemoved' = NotStarted
    /\ current_store' = {}
    /\ needed_paths' = {}
    /\ current_removed' = {}
    /\ todo' = {}
    /\ new_ctr' = 0
    /\ outdated_ctr' = 0
    /\ rm_ctr' = 0
    /\ stdout' = <<>>
    /\ detected' = FALSE
    /\ umounts' = 0
    /\ mounts' = 0
    /\ rmTried' = NoneTried
    /\ mkTried' = NoneTried

\* Before the first invocation nothing below the root exists.
Init ==
    /\ store \in SUBSET Names
    /\ nixOut \in NixOutputs
    /\ otherMount \in BOOLEAN
    /\ rootUtf8 \in BOOLEAN
    /\ upper = {}
    /\ dirs = {}
    /\ upperMode = ModeDefault
    /\ mounted = FALSE
    /\ pc = "idle"
    /\ result = "none"
    /\ prev = "none"
    /\ tNeeded = NotStarted
    /\ tRemoved = NotStarted
    /\ current_store = {}
    /\ needed_paths = {}
    /\ current_removed = {}
    /\ todo = {}
    /\ new_ctr = 0
    /\ outdated_ctr = 0
    /\ rm_ctr = 0
    /\ stdout = <<>>
    /\ detected = FALSE
    /\ umounts = 0
    /\ mounts = 0
    /\ rmTried = NoneTried
    /\ mkTried = NoneTried

\* main returns Err(msg) (or panics): nothing after the failing call runs.
Abort(msg) ==
    /\ pc' = "done"
    /\ result' = msg

\* The errors main can return once it has begun to change the upper directory.
ApplyErrors ==
    {"remove_file: io", "remove_file: NotFound", "panic: unwrap on None",
     "Failed to remove file", "Failed to convert path to string", "Failed to mount"}

\* How a run ended: not at all, with Ok, or with an error before or after
\* the first change to the upper directory was due.
Outcome(r) ==
    IF r \in {"none", "ok"} THEN r
    ELSE IF r \in ApplyErrors THEN "failed applying"
    ELSE "failed collecting"

\* The same while the two threads exist.
AbortThreads(msg) ==
    /\ Abort(msg)
    /\ tNeeded' = Ended(tNeeded)
    /\ tRemoved' = Ended(tRemoved)

(***************************************************************************)
(* The world between invocations.                                          *)
(***************************************************************************)

\* Two resolver answers that differ in one line, or in how the command ended.
NixStep(o, x) ==
    \/ /\ o.ok /\ o.utf8 /\ x.ok /\ x.utf8
       /\ \E l \in StoreLines \cup {OtherLine, ShortLine} :
             x.lines = o.lines \cup {l} \/ x.lines = o.lines \ {l}
    \/ /\ o.lines = {} /\ x.lines = {}

\* Other processes add or remove a store path, or the closure of the roots
\* changes. What the preceding run did is then no guide to the next.
EnvChange ==
    /\ pc \in {"idle", "done"}
    /\ \/ /\ \E n \in Names : store' = IF n \in store THEN store \ {n} ELSE store \cup {n}
          /\ UNCHANGED nixOut
       \/ /\ nixOut' \in {x \in NixOutputs : x # nixOut /\ NixStep(nixOut, x)}
          /\ UNCHANGED store
    /\ pc' = "idle"
    /\ result' = "none"
    /\ prev' = "none"
    /\ FreshRun
    /\ UNCHANGED <<otherMount, rootUtf8, fsVars>>

\* The program is invoked (lines 32-34).
Start ==
    /\ pc \in {"idle", "done"}
    /\ pc' = "mkdir_merged"
    /\ result' = "none"
    /\ prev' = Outcome(result)
    /\ FreshRun
    /\ UNCHANGED <<envVars, fsVars>>

(***************************************************************************)
(* main, lines 36-47: directories, prior mount, permissions.               *)
(***************************************************************************)

\* fs::create_dir_all(d)?
CreateDir(at, d, next) ==
    /\ pc = at
    /\ \/ /\ dirs' = dirs \cup {d}
          /\ upperMode' = IF d = "upper" /\ d \notin dirs THEN ModeDefault ELSE upperMode
          /\ pc' = next
          /\ UNCHANGED result
       \/ /\ Abort("create_dir_all")
          /\ UNCHANGED <<dirs, upperMode>>
    /\ UNCHANGED <<envVars, upper, mounted, prev, threads, collected, todo,
                   counters, stdout, ghost>>

CreateMerged == CreateDir("mkdir_merged", "merged", "mkdir_upper")

CreateUpper == CreateDir("mkdir_upper", "upper", "mkdir_work")

CreateWork == CreateDir("mkdir_work", "work", "is_mounted")

\* if is_mounted(&merged_path)? { ... }
QueryMounts ==
    /\ pc = "is_mounted"
    /\ \/ /\ detected' = IsMounted(mounted, otherMount)
          /\ pc' = IF detected' THEN "umount" ELSE "chmod"
          /\ UNCHANGED result
       \/ /\ Abort("Failed to query mounts")
          /\ UNCHANGED detected
    /\ UNCHANGED <<envVars, fsVars, prev, threads, collected, todo, counters,
                   stdout, umounts, mounts, rmTried, mkTried>>

\* Variant: the exit status of umount is not looked at.
UmountUnchecked ==
    /\ pc = "umount"
    /\ umounts' = umounts + 1
    /\ mounted' \in {mounted, FALSE}
    /\ pc' = "chmod"
    /\ UNCHANGED <<envVars, upper, dirs, upperMode, result, prev, threads, collected,
                   todo, counters, stdout, detected, mounts, rmTried, mkTried>>

\* umount(&merged_path)?: the command succeeds only on a mount point.
Umount ==
    /\ pc = "umount"
    /\ umounts' = umounts + 1
    /\ \/ /\ mounted
          /\ mounted' = FALSE
          /\ pc' = "chmod"
          /\ UNCHANGED result
       \/ /\ Abort("Failed to unmount")
          /\ UNCHANGED mounted
    /\ UNCHANGED <<envVars, upper, dirs, upperMode, prev, threads, collected,
                   todo, counters, stdout, detected, mounts, rmTried, mkTried>>

\* fs::set_permissions(&upper_path, 0o111)?
SetPermissions ==
    /\ pc = "chmod"
    /\ \/ /\ upperMode' = ModeExecOnly
          /\ pc' = "spawn"
          /\ UNCHANGED result
       \/ /\ Abort("set_permissions")
          /\ UNCHANGED upperMode
    /\ UNCHANGED <<envVars, upper, dirs, mounted, prev, threads, collected,
                   todo, counters, stdout, ghost>>

(***************************************************************************)
(* main, lines 49-58: the three collections.                               *)
(***************************************************************************)

\* thread::spawn twice (lines 50-53).
Spawn ==
    /\ pc = "spawn"
    /\ tNeeded' = Running
    /\ tRemoved' = Running
    /\ pc' = "list_store"
    /\ UNCHANGED <<envVars, fsVars, result, prev, collected, todo, counters,
                   stdout, ghost>>

\* The process lives until main returns.
Alive == pc \in {"list_store", "join_needed", "join_removed"}

\* Thread body: get_needed_paths(&file); launching nix-store may itself fail.
NeededThread ==
    /\ Alive
    /\ tNeeded = Running
    /\ tNeeded' \in {GetNeededPaths(nixOut), IoErr("nix-store: io")}
    /\ UNCHANGED <<envVars, fsVars, pc, result, prev, tRemoved, collected, todo,
                   counters, stdout, ghost>>

\* Thread body: get_paths(&upper_path2).
RemovedThread ==
    /\ Alive
    /\ tRemoved = Running
    /\ tRemoved' \in {GetPaths(upper), IoErr("read_dir: upper")}
    /\ UNCHANGED <<envVars, fsVars, pc, result, prev, tNeeded, collected, todo,
                   counters, stdout, ghost>>

\* Variant: the changes are applied once the store is listed, the threads
\* left unjoined.
ListStoreNoJoin ==
    /\ pc = "list_store"
    /\ current_store' = store
    /\ todo' = {}
    /\ pc' = "unmask"
    /\ UNCHANGED <<envVars, fsVars, result, prev, threads, needed_paths,
                   current_removed, counters, stdout, ghost>>

\* let current_store = get_paths(Path::new("/nix/store"))?;
ListStore ==
    /\ pc = "list_store"
    /\ \E r \in {GetPaths(store), IoErr("read_dir: /nix/store")} :
          IF r.tag = "ok"
          THEN /\ current_store' = r.val
               /\ pc' = "join_needed"
               /\ UNCHANGED <<result, threads>>
          ELSE /\ AbortThreads(r.msg)
               /\ UNCHANGED current_store
    /\ UNCHANGED <<envVars, fsVars, prev, needed_paths, current_removed,
                   todo, counters, stdout, ghost>>

\* Variant: a thread that failed or panicked counts as having found nothing.
JoinResultSwallowed(t) ==
    IF t.tag \in {"err", "panic"} THEN [tag |-> "ok", val |-> {}, msg |-> ""] ELSE t

\* handle.join().map_err(|_| "Failed to join thread")??
JoinResult(t) ==
    IF t.tag = "panic" THEN [tag |-> "err", val |-> {}, msg |-> "Failed to join thread"]
    ELSE t

JoinNeeded ==
    /\ pc = "join_needed"
    /\ tNeeded.tag \notin {"none", "running"}
    /\ LET r == JoinResult(tNeeded) IN
          IF r.tag = "ok"
          THEN /\ needed_paths' = r.val
               /\ tNeeded' = Joined
               /\ pc' = "join_removed"
               /\ UNCHANGED <<result, tRemoved>>
          ELSE /\ AbortThreads(r.msg)
               /\ UNCHANGED needed_paths
    /\ UNCHANGED <<envVars, fsVars, prev, current_store, current_removed,
                   todo, counters, stdout, ghost>>

JoinRemoved ==
    /\ pc = "join_removed"
    /\ tRemoved.tag \notin {"none", "running"}
    /\ LET r == JoinResult(tRemoved) IN
          IF r.tag = "ok"
          THEN /\ current_removed' = r.val
               /\ tRemoved' = Joined
               /\ todo' = Unmask(r.val, needed_paths)
               /\ pc' = "unmask"
               /\ UNCHANGED <<result, tNeeded>>
          ELSE /\ AbortThreads(r.msg)
               /\ UNCHANGED <<current_removed, todo>>
    /\ UNCHANGED <<envVars, fsVars, prev, current_store, needed_paths,
                   counters, stdout, ghost>>

(***************************************************************************)
(* main, lines 60-92: applying the changes to the upper directory.         *)
(* A HashSet is iterated in no particular order: each step of a loop takes *)
(* any name not yet visited.                                               *)
(***************************************************************************)

\* Variant: the needed path itself is removed, from /nix/store.
UnmaskLoopInStore ==
    /\ pc = "unmask"
    /\ \/ /\ \E f \in todo :
                /\ rmTried' = [rmTried EXCEPT ![f] = @ + 1]
                /\ \/ /\ f \in store
                      /\ store' = store \ {f}
                      /\ new_ctr' = new_ctr + 1
                      /\ todo' = todo \ {f}
                      /\ UNCHANGED <<pc, result>>
                   \/ /\ Abort(IF f \in store THEN "remove_file: io" ELSE "remove_file: NotFound")
                      /\ UNCHANGED <<store, new_ctr, todo>>
       \/ /\ todo = {}
          /\ todo' = Stale(current_removed, current_store)
          /\ pc' = "stale"
          /\ UNCHANGED <<store, new_ctr, result, rmTried>>
    /\ UNCHANGED <<nixOut, otherMount, rootUtf8, fsVars, prev, threads, collected,
                   outdated_ctr, rm_ctr, stdout, detected, umounts, mounts, mkTried>>

\* for file in current_removed.intersection(&needed_paths) { remove_file?; new_ctr += 1 }
UnmaskLoop ==
    /\ pc = "unmask"
    /\ \/ /\ \E f \in todo :
                /\ rmTried' = [rmTried EXCEPT ![f] = @ + 1]
                /\ \/ /\ f \in upper
                      /\ upper' = upper \ {f}
                      /\ new_ctr' = new_ctr + 1
                      /\ todo' = todo \ {f}
                      /\ UNCHANGED <<pc, result>>
                   \/ /\ Abort(IF f \in upper THEN "remove_file: io" ELSE "remove_file: NotFound")
                      /\ UNCHANGED <<upper, new_ctr, todo>>
       \/ /\ todo = {}
          /\ todo' = Stale(current_removed, current_store)
          /\ pc' = "stale"
          /\ UNCHANGED <<upper, new_ctr, result, rmTried>>
    /\ UNCHANGED <<envVars, dirs, upperMode, mounted, prev, threads, collected,
                   outdated_ctr, rm_ctr, stdout, detected, umounts, mounts, mkTried>>

\* for file in current_removed.difference(&current_store) { remove_file?; outdated_ctr += 1 }
\* and, past the loop, lines 76-78: upper_path.to_str().unwrap() panics on a
\* path that is not UTF-8.
StaleLoop ==
    /\ pc = "stale"
    /\ \/ /\ \E f \in todo :
                /\ rmTried' = [rmTried EXCEPT ![f] = @ + 1]
                /\ \/ /\ f \in upper
                      /\ upper' = upper \ {f}
                      /\ outdated_ctr' = outdated_ctr + 1
                      /\ todo' = todo \ {f}
                      /\ UNCHANGED <<pc, result>>
                   \/ /\ Abort(IF f \in upper THEN "remove_file: io" ELSE "remove_file: NotFound")
                      /\ UNCHANGED <<upper, outdated_ctr, todo>>
       \/ /\ todo = {}
          /\ IF rootUtf8
             THEN /\ todo' = NewlyMask(current_store, current_removed, needed_paths)
                  /\ pc' = "mknod"
                  /\ UNCHANGED result
             ELSE /\ Abort("panic: unwrap on None")
                  /\ UNCHANGED todo
          /\ UNCHANGED <<upper, outdated_ctr, rmTried>>
    /\ UNCHANGED <<envVars, dirs, upperMode, mounted, prev, threads, collected,
                   new_ctr, rm_ctr, stdout, detected, umounts, mounts, mkTried>>

\* Variant: a failed mknod is passed over and the loop goes on.
MknodLoopUnchecked ==
    /\ pc = "mknod"
    /\ \/ /\ \E f \in todo :
                /\ mkTried' = [mkTried EXCEPT ![f] = @ + 1]
                /\ todo' = todo \ {f}
                /\ \/ /\ f \notin upper
                      /\ upper' = upper \cup {f}
                      /\ rm_ctr' = rm_ctr + 1
                   \/ UNCHANGED <<upper, rm_ctr>>
                /\ UNCHANGED <<pc, result, stdout>>
       \/ /\ todo = {}
          /\ stdout' = <<new_ctr, outdated_ctr, rm_ctr>>
          /\ pc' = "mount"
          /\ UNCHANGED <<upper, rm_ctr, todo, result, mkTried>>
    /\ UNCHANGED <<envVars, dirs, upperMode, mounted, prev, threads, collected,
                   new_ctr, outdated_ctr, detected, umounts, mounts, rmTried>>

\* for file in current_available.difference(&needed_paths_ref) { mknod; rm_ctr += 1 }
\* and, past the loop, the println! of the three counters.
MknodLoop ==
    /\ pc = "mknod"
    /\ \/ /\ \E f \in todo :
                /\ mkTried' = [mkTried EXCEPT ![f] = @ + 1]
                /\ \/ /\ f \notin upper
                      /\ upper' = upper \cup {f}
                      /\ rm_ctr' = rm_ctr + 1
                      /\ todo' = todo \ {f}
                      /\ UNCHANGED <<pc, result, stdout>>
                   \/ /\ Abort("Failed to remove file")
                      /\ UNCHANGED <<upper, rm_ctr, todo, stdout>>
       \/ /\ todo = {}
          /\ stdout' = <<new_ctr, outdated_ctr, rm_ctr>>
          /\ pc' = "mount"
          /\ UNCHANGED <<upper, rm_ctr, todo, result, mkTried>>
    /\ UNCHANGED <<envVars, dirs, upperMode, mounted, prev, threads, collected,
                   new_ctr, outdated_ctr, detected, umounts, mounts, rmTried>>

(***************************************************************************)
(* main, lines 94-96, and mount.                                           *)
(***************************************************************************)

\* What <root>/merged shows: the layers of the overlay mounted there by
\* lowerdir=<root>/upper:/nix/store, the first layer first.
View == IF mounted THEN Overlay(upper, store) ELSE NoView

\* mount -t overlay overlay -o lowerdir=<root>/upper:/nix/store <root>/merged
Mount ==
    /\ pc = "mount"
    /\ IF ~rootUtf8
       THEN /\ Abort("Failed to convert path to string")
            /\ UNCHANGED <<mounted, mounts>>
       ELSE /\ mounts' = mounts + 1
            /\ \/ /\ mounted' = TRUE
                  /\ pc' = "done"
                  /\ result' = "ok"
               \/ /\ Abort("Failed to mount")
                  /\ UNCHANGED mounted
    /\ UNCHANGED <<envVars, upper, dirs, upperMode, prev, threads, collected, todo,
                   counters, stdout, detected, umounts, rmTried, mkTried>>

Next ==
    \/ EnvChange
    \/ Start
    \/ CreateMerged
    \/ CreateUpper
    \/ CreateWork
    \/ QueryMounts
    \/ Umount
    \/ SetPermissions
    \/ Spawn
    \/ NeededThread
    \/ RemovedThread
    \/ ListStore
    \/ JoinNeeded
    \/ JoinRemoved
    \/ UnmaskLoop
    \/ StaleLoop
    \/ MknodLoop
    \/ Mount

Spec == Init /\ [][Next]_vars

(***************************************************************************)
(* Properties.                                                             *)
(***************************************************************************)

\* All three collections have been handed to main in this run.
Collected == tNeeded = Joined /\ tRemoved = Joined

UnmaskSet == Unmask(current_removed, needed_paths)

StaleSet == Stale(current_removed, current_store)

NewlySet == NewlyMask(current_store, current_removed, needed_paths)

\* masked' = (masked \ (unmask \cup stale)) \cup newly_mask
MaskedAfter == (current_removed \ (UnmaskSet \cup StaleSet)) \cup NewlySet

RunOk == pc = "done" /\ result = "ok"

\* C1: whatever store, whitelist and masked a run collects, removing unmask
\* and stale from masked and adding newly_mask gives store \ whitelist.
C1_MaskedAfterIsStoreMinusWhitelist ==
    Collected => MaskedAfter = current_store \ needed_paths

\* C1 witness: a run whose three sets are all non-empty.
C1_Witness ==
    /\ Collected
    /\ pc = "unmask"
    /\ UnmaskSet # {}
    /\ StaleSet # {}
    /\ NewlySet # {}

\* C2: when a run returns Ok, the upper directory holds exactly the store
\* paths outside the closure: no marker for a name absent from the store,
\* none for a needed path.
C2_SuccessLeavesStoreMinusWhitelist ==
    RunOk => /\ upper = current_store \ needed_paths
             /\ upper \subseteq store
             /\ upper \cap needed_paths = {}

\* C2 witness: a successful run that removed a needed marker, removed a
\* stale marker and created a marker.
C2_Witness ==
    /\ RunOk
    /\ new_ctr > 0
    /\ outdated_ctr > 0
    /\ rm_ctr > 0

\* The store paths the merged view resolves to the store itself.
Exposed == {n \in DOMAIN View : View[n] = "store"}

\* C3: after a run returns Ok the view is mounted and the store entries it
\* shows are exactly the needed paths present in the store.
C3_ViewExposesNeededStorePaths ==
    RunOk => /\ mounted
             /\ Exposed = store \cap needed_paths

\* C3 witness: a successful run that uncovered a path, with a store path
\* left hidden and one left visible.
C3_Witness ==
    /\ RunOk
    /\ new_ctr > 0
    /\ store \ needed_paths # {}
    /\ Exposed # {}

\* C4: reconciling again from masked' with the same store and whitelist
\* gives three empty sets; a run that follows a successful run under the
\* same store and closure removes and creates nothing.
C4_SecondPassIsEmpty ==
    /\ Collected =>
          /\ Unmask(MaskedAfter, needed_paths) = {}
          /\ Stale(MaskedAfter, current_store) = {}
          /\ NewlyMask(current_store, MaskedAfter, needed_paths) = {}
    /\ (Collected /\ prev = "ok") =>
          /\ UnmaskSet = {}
          /\ StaleSet = {}
          /\ NewlySet = {}
          /\ rmTried = NoneTried
          /\ mkTried = NoneTried

\* C4 witness: a second successful run over a non-empty set of markers that
\* printed three zero counts.
C4_Witness ==
    /\ RunOk
    /\ prev = "ok"
    /\ upper # {}
    /\ stdout = <<0, 0, 0>>

\* C5: unmask, stale and newly_mask are pairwise disjoint, and no name is
\* the target of two file operations in one run.
C5_PairwiseDisjoint ==
    Collected =>
        /\ UnmaskSet \cap StaleSet = {}
        /\ UnmaskSet \cap NewlySet = {}
        /\ StaleSet \cap NewlySet = {}
        /\ \A n \in Names : rmTried[n] + mkTried[n] <= 1

\* C6: a run that follows an aborted run, under the same store and closure,
\* and returns Ok (none of its operations failed) ends with the view mounted
\* and the upper directory equal to store \ whitelist.
C6_RunAfterFailureRepairs ==
    (RunOk /\ prev \in {"failed collecting", "failed applying"}) =>
        /\ mounted
        /\ upper = store \ needed_paths

\* C6 witness: a successful run after a run that aborted while applying,
\* which had markers both to remove and to create.
C6_Witness ==
    /\ RunOk
    /\ prev = "failed applying"
    /\ new_ctr + outdated_ctr > 0
    /\ rm_ctr > 0

RemovalStep == \E n \in Names : rmTried'[n] > rmTried[n]

CreationStep == \E n \in Names : mkTried'[n] > mkTried[n]

\* C7: no marker is removed or created before the store listing, the upper
\* listing and the closure have all reached main; no removal is attempted
\* once a creation has been, and at the first creation no marker of unmask
\* or stale is left.
C7_CollectThenRemoveThenCreate ==
    [][/\ (RemovalStep \/ CreationStep \/ upper' # upper) =>
             /\ Collected
             /\ pc \in {"unmask", "stale", "mknod"}
       /\ RemovalStep => mkTried = NoneTried
       /\ CreationStep =>
             /\ (UnmaskSet \cup StaleSet) \cap upper = {}
             /\ \A n \in UnmaskSet \cup StaleSet : rmTried[n] = 1]_vars

\* C7 witness: a run that has removed a needed and a stale marker and has
\* begun to create markers.
C7_Witness ==
    /\ pc = "mknod"
    /\ new_ctr > 0
    /\ outdated_ctr > 0
    /\ rm_ctr > 0

\* C8: umount is issued only after a mount was detected, at most once, and
\* before the mount command; the mount command is issued at most once and
\* only with no view mounted at the merged path.
C8_UnmountOnceBeforeMount ==
    [][/\ umounts' > umounts => (detected /\ umounts = 0 /\ mounts = 0)
       /\ mounts' > mounts =>
             /\ ~mounted
             /\ mounts = 0
             /\ umounts = (IF detected THEN 1 ELSE 0)]_vars

\* C8 witness: a successful run that found the view mounted.
C8_Witness ==
    /\ RunOk
    /\ detected
    /\ umounts = 1
    /\ mounts = 1

NoMarkerOps == rmTried = NoneTried /\ mkTried = NoneTried

\* C9: directories, then the unmount, then the marker changes, then the
\* mount; a failure before the marker changes leaves the markers alone, a
\* failed removal means no creation and no mount, a failed creation means no
\* mount, and the mount command comes last, after everything else succeeded.
C9_PhasesInOrder ==
    /\ result \in {"create_dir_all", "Failed to query mounts", "Failed to unmount",
                   "set_permissions"} => (NoMarkerOps /\ mounts = 0)
    /\ result \in {"remove_file: io", "remove_file: NotFound"} =>
          (mkTried = NoneTried /\ mounts = 0)
    /\ result = "Failed to remove file" => mounts = 0
    /\ (detected \/ umounts > 0) => dirs = AllDirs
    /\ ~NoMarkerOps =>
          /\ dirs = AllDirs
          /\ upperMode = ModeExecOnly
          /\ umounts = (IF detected THEN 1 ELSE 0)
    /\ mounts > 0 =>
          /\ pc = "done"
          /\ result \in {"ok", "Failed to mount"}
          /\ Collected
          /\ upper = current_store \ needed_paths
          /\ stdout = <<new_ctr, outdated_ctr, rm_ctr>>
    /\ RunOk => mounts = 1

\* C9 witness: a run that removed a marker, then failed to remove another,
\* with markers still to create.
C9_Witness ==
    /\ pc = "done"
    /\ result = "remove_file: io"
    /\ new_ctr > 0
    /\ NewlySet # {}

\* A collection of this run has failed.
CollectionFailed ==
    \/ tNeeded.tag \in {"err", "panic"}
    \/ tRemoved.tag = "err"
    \/ result = "read_dir: /nix/store"

\* C10: once a collection has failed, no marker is removed or created and
\* no mount is issued in that run, and main, on joining a failed or panicked
\* thread, returns an error.
C10_CollectionFailureAborts ==
    /\ [](CollectionFailed =>
             /\ NoMarkerOps
             /\ mounts = 0
             /\ pc \in {"list_store", "join_needed", "join_removed", "done"}
             /\ pc = "done" => result \notin {"ok", "none"})
    /\ [][/\ (pc = "join_needed" /\ tNeeded.tag \in {"err", "panic"} /\ pc' # pc) =>
                (pc' = "done" /\ result' \notin {"ok", "none"})
          /\ (pc = "join_removed" /\ tRemoved.tag = "err" /\ pc' # pc) =>
                (pc' = "done" /\ result' \notin {"ok", "none"})]_vars

\* C10 witness: the closure thread panicked and main returned the join
\* error, with store paths waiting to be masked.
C10_Witness ==
    /\ pc = "done"
    /\ tNeeded.tag = "panic"
    /\ result = "Failed to join thread"
    /\ store \ upper # {}

\* C11: when mknod fails the run ends in an error and the counts of the
\* operations done so far have been reported.
C11_CreationFailureReportsCounts ==
    result = "Failed to remove file" =>
        /\ pc = "done"
        /\ stdout = <<new_ctr, outdated_ctr, rm_ctr>>

\* C12: with every store path needed, nothing is newly masked and unmask is
\* masked \cap store.
C12_WhitelistCoversStore ==
    (Collected /\ current_store \subseteq needed_paths) =>
        /\ NewlySet = {}
        /\ UnmaskSet = current_removed \cap current_store

\* C13: with an empty store nothing is newly masked, stale is masked, and
\* each of the three sets is empty or is masked.
C13_EmptyStore ==
    (Collected /\ current_store = {}) =>
        /\ NewlySet = {}
        /\ StaleSet = current_removed
        /\ \A X \in {UnmaskSet, StaleSet, NewlySet} : X = {} \/ X = current_removed

\* The resolver reported failure, or its output is not a list of store paths.
Unparsable(out) ==
    \/ ~out.ok
    \/ ~out.utf8
    \/ \E l \in out.lines : l[1] # "store"

\* C14: when the resolver fails or its output cannot be parsed, the closure
\* thread returns an error (no set, no panic), the run does not return Ok,
\* does not end in the join error, and changes no marker.
C14_UnparsableIsResolutionFailure ==
    Unparsable(nixOut) =>
        /\ tNeeded.tag \notin {"ok", "panic", "joined"}
        /\ result \notin {"ok", "Failed to join thread"}
        /\ NoMarkerOps

\* C15: in one run no name is both removed and created, and no name that
\* had a marker when the upper directory was listed is given to mknod; a
\* path that is masked, in the store and needed is unmasked, never masked.
C15_NoNameRemovedAndCreated ==
    Collected =>
        /\ \A n \in Names : ~(rmTried[n] > 0 /\ mkTried[n] > 0)
        /\ \A n \in current_removed : mkTried[n] = 0 /\ n \notin NewlySet
        /\ \A n \in current_removed \cap current_store \cap needed_paths :
              n \in UnmaskSet /\ n \notin NewlySet

\* C15 witness: a successful run that unmasked a needed store path, left
\* a marker in place and created a marker.
C15_Witness ==
    /\ RunOk
    /\ \E n \in current_removed \cap current_store \cap needed_paths : rmTried[n] = 1
    /\ current_removed \cap upper # {}
    /\ rm_ctr > 0

\* The markers to remove and to create for upper to become store \ whitelist.
ToRemove == current_removed \ (current_store \ needed_paths)

ToCreate == (current_store \ needed_paths) \ current_removed

\* C16: a run calls remove_file once for each marker outside store \ whitelist,
\* mknod once for each path of store \ whitelist without a marker, and
\* nothing else: never more while it runs, exactly that once the loops are done.
C16_MinimalOperations ==
    Collected =>
        /\ \A n \in Names :
              /\ rmTried[n] <= (IF n \in ToRemove THEN 1 ELSE 0)
              /\ mkTried[n] <= (IF n \in ToCreate THEN 1 ELSE 0)
        /\ pc = "mount" \/ RunOk =>
              \A n \in Names :
                 /\ rmTried[n] = (IF n \in ToRemove THEN 1 ELSE 0)
                 /\ mkTried[n] = (IF n \in ToCreate THEN 1 ELSE 0)

\* C17: when the mount table was read, is_mounted answered true exactly when
\* an overlay is mounted at the merged path.
C17_DetectedIffMounted ==
    /\ pc = "umount" => mounted
    /\ (pc = "chmod" /\ umounts = 0) => ~mounted

\* The errors that come from outside: a command, a listing or a system call
\* that fails on a target in order, a root that is not UTF-8, a resolver
\* that prints something other than store paths.
FaultErrors ==
    {"create_dir_all", "Failed to query mounts", "Failed to unmount", "set_permissions",
     "read_dir: /nix/store", "read_dir: upper", "nix-store: io",
     "Failed to query nix store", "Utf8Error", "Failed to join thread",
     "remove_file: io", "Failed to remove file", "panic: unwrap on None",
     "Failed to convert path to string", "Failed to mount"}

\* C18: a run in which nothing outside fails, where remove_file fails only
\* on a missing target and mknod only on an existing one, returns Ok.
C18_BenignRunSucceeds ==
    pc = "done" => (result = "ok" \/ result \in FaultErrors)

\* C19: each remove_file and mknod happens with no view mounted at the
\* merged path, after the mount check of the run (and its umount, if a
\* mount was detected) and before its mount command.
C19_NoMarkerChangeWhileMounted ==
    [][(RemovalStep \/ CreationStep \/ upper' # upper) =>
          /\ ~mounted
          /\ pc \in {"unmask", "stale", "mknod"}
          /\ umounts = (IF detected THEN 1 ELSE 0)
          /\ mounts = 0 /\ mounts' = 0]_vars

\* C19 witness: a run that found the view mounted, unmounted it and has
\* removed and created markers.
C19_Witness ==
    /\ pc = "mknod"
    /\ detected
    /\ umounts = 1
    /\ new_ctr + outdated_ctr > 0
    /\ rm_ctr > 0

\* C20: no step of a run changes the entries of /nix/store; only what other
\* processes do between runs changes them. Files are removed and created in
\* the upper directory alone.
C20_StoreOnlyListed ==
    [][/\ store' # store => (pc \in {"idle", "done"} /\ pc' = "idle")
       /\ (RemovalStep \/ CreationStep) => store' = store]_vars

\* C20 witness: a successful run over a non-empty store that removed and
\* created markers.
C20_Witness ==
    /\ RunOk
    /\ store # {}
    /\ store = current_store
    /\ new_ctr > 0
    /\ rm_ctr > 0

====
